---- MODULE Spec2Model ----
(***************************************************************************)
(* Verification model of the legalplates client.                           *)
(*                                                                         *)
(*   SpecApi     the HTTP wrappers of src/lib/api.ts and handleResponse    *)
(*   SpecStream  matchTemplateStream of src/lib/api.ts, byte by byte       *)
(*   Spec        the chat page of src/app/chat/page.tsx: sessions, the     *)
(*               history list, local storage and the requests it issues    *)
(*   SpecDraft   the variables form of the chat page and                   *)
(*               handleGenerateDraft                                       *)
(*   SpecUpload  the upload page: validateFile and handleUpload            *)
(*   SpecReload  the history list with its Date values, saved to local     *)
(*               storage and loaded again on mount                         *)
(*   SpecMessages  addMessage in its three modes                           *)
(*   SpecSelect  a stored session with two offered templates, and the      *)
(*               questions requests of handleSelectTemplate                *)
(*                                                                         *)
(* The specifications share one set of variables; each keeps the           *)
(* variables it does not use at their idle values.                         *)
(***************************************************************************)
EXTENDS Integers, Sequences, FiniteSets, TLC

VARIABLES
    \* ---- SpecApi
    apiResponse,        \* what the backend answers: [status, data: [error, message, body]]
    apiFn,              \* the API client function that was called, or "none"
    apiResult,          \* how the returned promise settled, or Pending
    \* ---- SpecStream
    sBytes,             \* the bytes the backend will send on the stream
    sHttp,              \* how the fetch answers: "ok", "http_error", "no_body"
    sPos,               \* number of bytes handed out by reader.read() so far
    pc,                 \* position of the promise chain of matchTemplateStream
    buffer,             \* let buffer (api.ts:154)
    lines,              \* lines of the chunk still to be looked at by the for loop
    lineNo,             \* number of complete lines the for loop has looked at
    canceled,           \* let canceled (api.ts:135)
    readerCancelled,    \* reader.cancel() has been called
    calls,              \* the callbacks invoked so far, in order
    \* ---- Spec: React state of ChatPageContent (page.tsx:61-85); the error
    \* banner, the toast and the slash-command menu are left out: no handler
    \* reads them
    chatHistory, currentChatId, messages, userQuery, isLoading,
    topMatch, alternatives, selectedTemplateId, answers, questions,
    prefilledFields, draft, showSidebar, activeTab,
    \* ---- Spec: what lives outside React state
    isProcessingRef,    \* useRef(false)  (page.tsx:97)
    storage,            \* localStorage entry 'chatHistory': <<>> or <<text>>
    initialQuery,       \* searchParams.get('query') || ''
    timer,              \* the setTimeout of the initial-query effect
    nextChatId,         \* the next fresh id createNewChat generates
    requests,           \* every request the page has issued, in order
    lastAction,         \* the handler that ran last (history variable)
    \* ---- SpecUpload: React state of UploadPage (app/upload/page.tsx)
    file,               \* useState<File | null>: NoFile or [type, size]
    loading,            \* useState(false)
    uploadError,        \* the error state: NULL or a text
    uploadResult,       \* the result state: NULL or the body uploadDocument returned
    offered,            \* the file of the drop or input event just handled, if any
    uploaded,           \* the file last passed to uploadDocument, if any
    \* ---- SpecReload: the history list with its Date values
    clock               \* Date.now(), in milliseconds

apiVars == <<apiResponse, apiFn, apiResult>>
streamVars == <<sBytes, sHttp, sPos, pc, buffer, lines, lineNo, canceled,
                readerCancelled, calls>>
pageVars == <<chatHistory, currentChatId, messages, userQuery, isLoading,
              topMatch, alternatives, selectedTemplateId, answers, questions,
              prefilledFields, draft, showSidebar, activeTab>>
chatVars == <<pageVars, isProcessingRef, storage, initialQuery, timer, nextChatId,
              requests, lastAction>>
uploadVars == <<file, loading, uploadError, uploadResult, offered, uploaded>>
reloadVars == <<clock>>
extraVars == <<uploadVars, reloadVars>>
vars == <<apiVars, streamVars, chatVars, extraVars>>

NULL == "null"

\* question keys: each template asks for its own variable
Templates == {"t1", "t2"}
KeyOf(t) == t \o ".k"
Keys == { KeyOf(t) : t \in Templates }
\* a key that is not in the answers object
Absent == "absent"
\* {}  (no key)
NoAnswers == [k \in Keys |-> Absent]
NoAction == "other"

\* the state of the first render (page.tsx:61-97)
FirstRender ==
    [chatHistory |-> <<>>, currentChatId |-> 0, messages |-> <<>>, userQuery |-> "",
     isLoading |-> FALSE, topMatch |-> NULL, alternatives |-> <<>>,
     selectedTemplateId |-> NULL, answers |-> NoAnswers, questions |-> <<>>,
     prefilledFields |-> NoAnswers, draft |-> <<>>, showSidebar |-> FALSE,
     activeTab |-> "variables"]

Cur ==
    [chatHistory |-> chatHistory, currentChatId |-> currentChatId, messages |-> messages,
     userQuery |-> userQuery, isLoading |-> isLoading,
     topMatch |-> topMatch, alternatives |-> alternatives,
     selectedTemplateId |-> selectedTemplateId, answers |-> answers,
     questions |-> questions, prefilledFields |-> prefilledFields, draft |-> draft,
     showSidebar |-> showSidebar, activeTab |-> activeTab]

\* the React state is the state s
PageIs(s) ==
    /\ chatHistory = s.chatHistory
    /\ currentChatId = s.currentChatId
    /\ messages = s.messages
    /\ userQuery = s.userQuery
    /\ isLoading = s.isLoading
    /\ topMatch = s.topMatch
    /\ alternatives = s.alternatives
    /\ selectedTemplateId = s.selectedTemplateId
    /\ answers = s.answers
    /\ questions = s.questions
    /\ prefilledFields = s.prefilledFields
    /\ draft = s.draft
    /\ showSidebar = s.showSidebar
    /\ activeTab = s.activeTab

ChatIdle ==
    /\ PageIs(FirstRender)
    /\ isProcessingRef = FALSE
    /\ storage = <<>>
    /\ initialQuery = ""
    /\ timer = "none"
    /\ nextChatId = 1
    /\ requests = <<>>
    /\ lastAction = NoAction

\* no file selected
NoFile == [type |-> NULL, size |-> 0]

UploadIdle ==
    /\ file = NoFile
    /\ loading = FALSE
    /\ uploadError = NULL
    /\ uploadResult = NULL
    /\ offered = <<>>
    /\ uploaded = <<>>

ReloadIdle == clock = 0

ExtraIdle == UploadIdle /\ ReloadIdle

(***************************************************************************)
(* SpecApi: handleResponse and the seven wrappers (src/lib/api.ts)         *)
(***************************************************************************)

Pending == [kind |-> "pending", message |-> "", body |-> NULL]
Rejected(msg) == [kind |-> "rejected", message |-> msg, body |-> NULL]
Resolved(b) == [kind |-> "resolved", message |-> "", body |-> b]

\* HTTP status codes the backend may answer with.
HttpStatuses == {200, 201, 400, 404, 500}
\* The envelope {error, message, body} of every JSON response (types.ts:8-12).
Messages == {"", "X", "Y"}
Bodies == {NULL, "payload"}
Envelopes == [error : BOOLEAN, message : Messages, body : Bodies]
Responses == [status : HttpStatuses, data : Envelopes]

\* if (data.error) throw new Error(data.message || 'API returned an error');
\* if (data.body === null) throw new Error('API returned null body');
\* return data.body
handleResponseEchoesMessage(data) ==
    IF data.error
    THEN Rejected(IF data.message # "" THEN data.message ELSE "API returned an error")
    ELSE IF data.body = NULL THEN Rejected(data.message)
    ELSE Resolved(data.body)

handleResponse(data) ==
    IF data.error
    THEN Rejected(IF data.message # "" THEN data.message ELSE "API returned an error")
    ELSE IF data.body = NULL THEN Rejected("API returned null body")
    ELSE Resolved(data.body)

\* apiClient is axios.create({baseURL, headers}) with no validateStatus, so
\* axios's default applies: a status outside 200..299 rejects the request
\* promise with "Request failed with status code <n>" and the wrapper's
\* handleResponse line is never reached.
validateStatus(status) == status >= 200 /\ status < 300

apiClientRequest(response) ==
    IF validateStatus(response.status)
    THEN Resolved(response)
    ELSE Rejected("Request failed with status code " \o ToString(response.status))

\* const response = await apiClient.<verb>(...); return handleResponse(response)
ApiCall(response) ==
    LET r == apiClientRequest(response)
    IN  IF r.kind = "rejected" THEN r ELSE handleResponse(r.body.data)

ApiIdle ==
    /\ apiResponse = [status |-> 200, data |-> [error |-> FALSE, message |-> "", body |-> NULL]]
    /\ apiFn = "none"
    /\ apiResult = Pending

InitApiVars ==
    /\ apiResponse \in Responses
    /\ apiFn = "none"
    /\ apiResult = Pending

Call(fn) ==
    /\ apiFn = "none"
    /\ apiFn' = fn
    /\ apiResult' = ApiCall(apiResponse)
    /\ UNCHANGED apiResponse

uploadDocument == Call("uploadDocument") /\ UNCHANGED <<streamVars, chatVars, extraVars>>
getTemplates == Call("getTemplates") /\ UNCHANGED <<streamVars, chatVars, extraVars>>
getTemplate == Call("getTemplate") /\ UNCHANGED <<streamVars, chatVars, extraVars>>
deleteTemplate == Call("deleteTemplate") /\ UNCHANGED <<streamVars, chatVars, extraVars>>
matchTemplate == Call("matchTemplate") /\ UNCHANGED <<streamVars, chatVars, extraVars>>
getQuestions == Call("getQuestions") /\ UNCHANGED <<streamVars, chatVars, extraVars>>
generateDraft == Call("generateDraft") /\ UNCHANGED <<streamVars, chatVars, extraVars>>

StreamIdle ==
    /\ sBytes = <<>>
    /\ sHttp = "ok"
    /\ sPos = 0
    /\ pc = "idle"
    /\ buffer = <<>>
    /\ lines = <<>>
    /\ lineNo = 0
    /\ canceled = FALSE
    /\ readerCancelled = FALSE
    /\ calls = <<>>

InitApi == InitApiVars /\ StreamIdle /\ ChatIdle /\ ExtraIdle

NextApi ==
    \/ uploadDocument
    \/ getTemplates
    \/ getTemplate
    \/ deleteTemplate
    \/ matchTemplate
    \/ getQuestions
    \/ generateDraft

SpecApi == InitApi /\ [][NextApi]_vars

\* C2: whenever the backend's envelope is {error: true, message: X} with X a
\* non-empty message, whatever the HTTP status, the called API function
\* rejects with message exactly X.
C2_ErrorEnvelopeRejectsWithMessage ==
    (apiFn # "none" /\ apiResponse.data.error /\ apiResponse.data.message # "")
        => (apiResult.kind = "rejected" /\ apiResult.message = apiResponse.data.message)

\* C3 (as claimed): an envelope with error = false and body = null on a
\* successful (2xx) call rejects with the message the backend put in the envelope.
C3_NullBodyCarriesBackendMessage ==
    (/\ apiFn # "none"
     /\ validateStatus(apiResponse.status)
     /\ ~apiResponse.data.error
     /\ apiResponse.data.body = NULL)
        => (apiResult.kind = "rejected" /\ apiResult.message = apiResponse.data.message)

\* C3 (amended): an envelope with error = false and body = null on a 2xx call
\* rejects with the fixed message 'API returned null body', whatever message
\* the envelope holds.
C3_NullBodyRejectsWithFixedMessage ==
    (/\ apiFn # "none"
     /\ validateStatus(apiResponse.status)
     /\ ~apiResponse.data.error
     /\ apiResponse.data.body = NULL)
        => (apiResult.kind = "rejected" /\ apiResult.message = "API returned null body")

C3_Witness ==
    /\ apiFn = "deleteTemplate"
    /\ apiResponse.status = 200
    /\ ~apiResponse.data.error
    /\ apiResponse.data.body = NULL
    /\ apiResponse.data.message = "X"
    /\ apiResult.kind = "rejected"

(***************************************************************************)
(* SpecStream: matchTemplateStream (src/lib/api.ts:126-199)                *)
(*                                                                         *)
(* Bytes are single characters (the stream is ASCII, so TextDecoder's      *)
(* stream mode is the identity on them).  A JSON payload is written        *)
(* "{" c "}" with c one character naming the status; anything else does    *)
(* not parse.  The for loop over the lines of one chunk is synchronous:    *)
(* it is modelled one line per step with pc = "lines", during which only   *)
(* the loop itself can act; the caller's cancellation handle runs either   *)
(* at an await (action Cancel) or from inside onStatusUpdate.              *)
(* onStatusUpdate may raise (the chat page's callback does, at             *)
(* page.tsx:486, when a success payload has no alternatives list); onError *)
(* does not (page.tsx:507-511 cannot).                                     *)
(***************************************************************************)

\* Number of lines of the streams the backend may send.
MaxLines == 2

NL == "\n"
\* line.startsWith('data: ') / line.slice(6)
Marker == <<"d", "a", "t", "a", ":", " ">>

StartsWith(line, prefix) ==
    /\ Len(line) >= Len(prefix)
    /\ SubSeq(line, 1, Len(prefix)) = prefix

Slice(line, n) == SubSeq(line, n + 1, Len(line))

\* String.prototype.split('\n'): the pieces between the newlines, a last
\* piece after the last newline included (empty when the text ends on one).
RECURSIVE Split(_)
Split(text) ==
    IF \A i \in 1..Len(text) : text[i] # NL
    THEN <<text>>
    ELSE LET i == CHOOSE k \in 1..Len(text) :
                      text[k] = NL /\ \A j \in 1..(k - 1) : text[j] # NL
         IN  <<SubSeq(text, 1, i - 1)>> \o Split(SubSeq(text, i + 1, Len(text)))

\* buffer = lines.pop() || ''
RemainderDropped(parts) == <<>>
Remainder(parts) == parts[Len(parts)]
\* what is left in lines after the pop
Complete(parts) == SubSeq(parts, 1, Len(parts) - 1)

StatusOf(c) ==
    CASE c = "s" -> "searching"
      [] c = "w" -> "searching_web"
      [] c = "k" -> "success"
      [] c = "e" -> "error"
      [] c = "n" -> "no_templates"
StatusChars == {"s", "w", "k", "e", "n"}

\* JSON.parse(line.slice(6))
JSONparse(text) ==
    IF Len(text) = 3 /\ text[1] = "{" /\ text[3] = "}" /\ text[2] \in StatusChars
    THEN [ok |-> TRUE, status |-> StatusOf(text[2])]
    ELSE [ok |-> FALSE, status |-> ""]

\* data.status === 'success' || data.status === 'error' || data.status === 'no_templates'
IsTerminalOnlySuccess(status) == status = "success"
IsTerminal(status) == status \in {"success", "error", "no_templates"}

\* The lines the backend may send.
DataLine(c) == Marker \o <<"{", c, "}">>
LineKinds ==
    { DataLine("s"), DataLine("k"), DataLine("n"),
      Marker \o <<"{", "s">>,                          \* truncated JSON
      <<"d", "a", "t", "a", ":", "{", "s", "}">>,      \* no space: not the marker
      <<>> }                                           \* blank separator line

RECURSIVE Join(_)
Join(ls) ==
    IF ls = <<>> THEN <<>>
    ELSE IF Len(ls) = 1 THEN ls[1]
    ELSE ls[1] \o <<NL>> \o Join(Tail(ls))

LineSeqs == UNION { [1..n -> LineKinds] : n \in 1..MaxLines }
\* every line sequence, ending on a newline or ending on its last line
Streams == { Join(ls) \o <<NL>> : ls \in LineSeqs } \cup { Join(ls) : ls \in LineSeqs }

ParseFailure == "Failed to parse server response"

StatusCall(status, n) ==
    [cb |-> "onStatusUpdate", status |-> status, message |-> "",
     line |-> n, valid |-> TRUE, afterCancel |-> canceled]
ErrorCall(msg, n, ok, wasCanceled) ==
    [cb |-> "onError", status |-> "", message |-> msg,
     line |-> n, valid |-> ok, afterCancel |-> wasCanceled]

\* while (!canceled) { await reader.read() ... }: the test at the head of the loop
LoopHead(c) == IF c THEN "done" ELSE "read"

InitStreamVars ==
    /\ sHttp \in {"ok", "http_error", "no_body"}
    /\ sBytes \in (IF sHttp = "ok" THEN Streams ELSE {<<>>})
    /\ sPos = 0
    /\ pc = "fetch"
    /\ buffer = <<>>
    /\ lines = <<>>
    /\ lineNo = 0
    /\ canceled = FALSE
    /\ readerCancelled = FALSE
    /\ calls = <<>>

\* .catch((error) => { if (!canceled) onError(...) })
Catch(msg) ==
    /\ calls' = IF canceled THEN calls ELSE Append(calls, ErrorCall(msg, 0, TRUE, canceled))
    /\ pc' = "done"

\* the fetch promise resolves: !response.ok and a missing body throw
FetchResolves ==
    /\ pc = "fetch"
    /\ IF sHttp = "http_error" THEN Catch("HTTP error! status")
       ELSE IF sHttp = "no_body" THEN Catch("No reader available")
       ELSE pc' = LoopHead(canceled) /\ UNCHANGED calls
    /\ UNCHANGED <<sBytes, sHttp, sPos, buffer, lines, lineNo, canceled, readerCancelled>>
    /\ UNCHANGED <<apiVars, chatVars, extraVars>>

\* the fetch promise rejects (network failure)
FetchRejects ==
    /\ pc = "fetch"
    /\ Catch("Failed to fetch")
    /\ UNCHANGED <<sBytes, sHttp, sPos, buffer, lines, lineNo, canceled, readerCancelled>>
    /\ UNCHANGED <<apiVars, chatVars, extraVars>>

\* the caller invokes the returned handle while the chain waits at an await
Cancel ==
    /\ pc \in {"fetch", "read"}
    /\ ~canceled
    /\ canceled' = TRUE
    /\ UNCHANGED <<sBytes, sHttp, sPos, pc, buffer, lines, lineNo, readerCancelled, calls>>
    /\ UNCHANGED <<apiVars, chatVars, extraVars>>

\* reader.read() resolves with a chunk of n bytes
ReadChunk ==
    /\ pc = "read"
    /\ sPos < Len(sBytes)
    /\ \E n \in 1..(Len(sBytes) - sPos) :
         LET parts == Split(buffer \o SubSeq(sBytes, sPos + 1, sPos + n))
         IN  /\ sPos' = sPos + n
             /\ buffer' = Remainder(parts)
             /\ lines' = Complete(parts)
             /\ pc' = IF Complete(parts) = <<>> THEN LoopHead(canceled) ELSE "lines"
    /\ UNCHANGED <<sBytes, sHttp, lineNo, canceled, readerCancelled, calls>>
    /\ UNCHANGED <<apiVars, chatVars, extraVars>>

\* reader.read() resolves with done = true
ReadDone ==
    /\ pc = "read"
    /\ sPos = Len(sBytes)
    /\ pc' = "done"
    /\ UNCHANGED <<sBytes, sHttp, sPos, buffer, lines, lineNo, canceled, readerCancelled, calls>>
    /\ UNCHANGED <<apiVars, chatVars, extraVars>>

\* reader.read() rejects (the connection breaks)
ReadFails ==
    /\ pc = "read"
    /\ Catch("network error")
    /\ UNCHANGED <<sBytes, sHttp, sPos, buffer, lines, lineNo, canceled, readerCancelled>>
    /\ UNCHANGED <<apiVars, chatVars, extraVars>>

\* one iteration of  for (const line of lines)
ProcessLine ==
    /\ pc = "lines"
    /\ lines # <<>>
    /\ lineNo' = lineNo + 1
    /\ LET line == Head(lines)
           rest == Tail(lines)
           n == lineNo + 1
           data == JSONparse(Slice(line, Len(Marker)))
       IN  IF ~StartsWith(line, Marker)
           THEN /\ lines' = rest
                /\ pc' = IF rest = <<>> THEN LoopHead(canceled) ELSE "lines"
                /\ UNCHANGED <<canceled, readerCancelled, calls>>
           ELSE IF ~data.ok
           THEN \* JSON.parse throws: catch, onError, reader.cancel(), return
                /\ calls' = Append(calls, ErrorCall(ParseFailure, n, FALSE, canceled))
                /\ readerCancelled' = TRUE
                /\ lines' = <<>>
                /\ pc' = "done"
                /\ UNCHANGED canceled
           ELSE \E does \in {"returns", "raises", "cancels"} :
                /\ canceled' = (canceled \/ does = "cancels")
                /\ IF does = "raises"
                   THEN \* the same catch block takes the callback's exception
                        /\ calls' = calls \o <<StatusCall(data.status, n),
                                                ErrorCall(ParseFailure, n, TRUE, canceled)>>
                        /\ readerCancelled' = TRUE
                        /\ lines' = <<>>
                        /\ pc' = "done"
                   ELSE /\ calls' = Append(calls, StatusCall(data.status, n))
                        /\ IF IsTerminal(data.status)
                           THEN /\ readerCancelled' = TRUE
                                /\ lines' = <<>>
                                /\ pc' = "done"
                           ELSE /\ lines' = rest
                                /\ pc' = IF rest = <<>> THEN LoopHead(canceled') ELSE "lines"
                                /\ UNCHANGED readerCancelled
    /\ UNCHANGED <<sBytes, sHttp, sPos, buffer>>
    /\ UNCHANGED <<apiVars, chatVars, extraVars>>

InitStream == InitStreamVars /\ ApiIdle /\ ChatIdle /\ ExtraIdle

NextStream ==
    \/ FetchResolves
    \/ FetchRejects
    \/ Cancel
    \/ ReadChunk
    \/ ReadDone
    \/ ReadFails
    \/ ProcessLine

SpecStream == InitStream /\ [][NextStream]_vars

\* ---- what the callbacks received, and what the stream holds

\* the statuses handed to onStatusUpdate, in order
RECURSIVE StatusesOf(_)
StatusesOf(cs) ==
    IF cs = <<>> THEN <<>>
    ELSE (IF Head(cs).cb = "onStatusUpdate" THEN <<Head(cs).status>> ELSE <<>>)
         \o StatusesOf(Tail(cs))
Delivered == StatusesOf(calls)

TerminalStatuses == {"success", "error", "no_templates"}

\* The status events of a sequence of lines: every line with the data marker,
\* in order, up to and including the first terminal one; a data line that is
\* not JSON ends the sequence; lines without the marker count for nothing.
RECURSIVE EventsOf(_)
EventsOf(ls) ==
    IF ls = <<>> THEN <<>>
    ELSE LET line == Head(ls)
             data == JSONparse(SubSeq(line, 7, Len(line)))
         IN  IF ~(Len(line) >= 6 /\ SubSeq(line, 1, 6) = <<"d", "a", "t", "a", ":", " ">>)
             THEN EventsOf(Tail(ls))
             ELSE IF ~data.ok THEN <<>>
             ELSE IF data.status \in TerminalStatuses THEN <<data.status>>
             ELSE <<data.status>> \o EventsOf(Tail(ls))

AllLines == Split(sBytes)
TerminatedLines == SubSeq(AllLines, 1, Len(AllLines) - 1)
\* lines of the stream, its last unterminated line included when it has one
StreamLines == IF AllLines[Len(AllLines)] = <<>> THEN TerminatedLines ELSE AllLines

IsPrefix(a, b) == Len(a) <= Len(b) /\ SubSeq(b, 1, Len(a)) = a

\* the run was not cut short: no cancellation, no transport failure, no
\* callback that raised
Undisturbed ==
    /\ ~canceled
    /\ \A i \in 1..Len(calls) :
         calls[i].cb = "onError" => (calls[i].message = ParseFailure /\ ~calls[i].valid)

\* C4: no callback is invoked after the caller has invoked the cancellation handle.
C4_NoCallbackAfterCancel ==
    \A i \in 1..Len(calls) : ~calls[i].afterCancel

\* C5: once a success, error or no_templates status has been delivered to
\* onStatusUpdate, the reader is cancelled, the chain has ended, and no callback
\* is invoked for any later line of the stream.
C5_TerminalStatusEndsStream ==
    \A i \in 1..Len(calls) :
        (calls[i].cb = "onStatusUpdate" /\ calls[i].status \in TerminalStatuses)
            => /\ readerCancelled
               /\ pc = "done"
               /\ \A j \in (i + 1)..Len(calls) : calls[j].line = calls[i].line

\* a terminal status was delivered from the first line of a chunk that also
\* held a second data line
C5_Witness ==
    /\ Len(calls) = 1
    /\ calls[1].cb = "onStatusUpdate"
    /\ calls[1].status = "no_templates"
    /\ calls[1].line = 1
    /\ Len(AllLines) > 2
    /\ StartsWith(AllLines[2], Marker)
    /\ sPos = Len(sBytes)
    /\ pc = "done"

\* C6: a data line that is not valid JSON is reported through onError as a
\* parse failure exactly once, the reader is cancelled and nothing further is
\* delivered; and a parse failure is reported only for such a line.
C6_ParseFailureOnlyForMalformed ==
    /\ \A i \in 1..Len(calls) :
         (calls[i].cb = "onError" /\ calls[i].message = ParseFailure) => ~calls[i].valid
    /\ \A i \in 1..Len(calls) :
         ~calls[i].valid => /\ calls[i].cb = "onError"
                            /\ calls[i].message = ParseFailure
                            /\ readerCancelled
                            /\ i = Len(calls)
                            /\ pc = "done"

\* C7 (as claimed): a run that is not cut short delivers every data line of
\* the stream up to the first terminal event, the last line the stream ends on
\* included, whatever the chunking.
C7_EveryDataLineDelivered ==
    (pc = "done" /\ Undisturbed) => Delivered = EventsOf(StreamLines)

\* C7 (amended): whatever the chunking, what onStatusUpdate has received is
\* always a prefix of the status events of the newline-terminated lines of the
\* stream, and a run that is not cut short has received all of them; a last
\* line that no newline ends is never delivered.
C7_TerminatedDataLinesDelivered ==
    /\ IsPrefix(Delivered, EventsOf(TerminatedLines))
    /\ (pc = "done" /\ Undisturbed) => Delivered = EventsOf(TerminatedLines)

\* a stream read to its end whose last line, a data line that no newline
\* ends, stayed in the buffer
C7_Witness ==
    /\ pc = "done"
    /\ Undisturbed
    /\ sPos = Len(sBytes)
    /\ Delivered = <<"searching">>
    /\ buffer = DataLine("k")

\* the calls that tell the caller the stream has ended: a terminal status
\* update or an onError
EndNotifications ==
    { i \in 1..Len(calls) :
        \/ calls[i].cb = "onError"
        \/ calls[i].cb = "onStatusUpdate" /\ calls[i].status \in TerminalStatuses }

\* C30: a call of matchTemplateStream gives its caller at most one end
\* notification, a terminal status update or an onError, never both and never
\* two of one kind.
C30_AtMostOneEndNotification == Cardinality(EndNotifications) <= 1

(***************************************************************************)
(* Spec: the chat page (src/app/chat/page.tsx)                             *)
(*                                                                         *)
(* One action is one handler (a user event, a timer, a stream callback or  *)
(* the continuation of an await) together with the effects React runs      *)
(* after it: the update of the history list (page.tsx:168-172) and the     *)
(* save to local storage (page.tsx:161-165).  A handler started by a user  *)
(* event sees the state of the latest render; the auto-submit timer and    *)
(* the continuations see the values their closure captured.  Optional      *)
(* fields (undefined or a value) are sequences of length 0 or 1.           *)
(***************************************************************************)

\* chat ids createNewChat may hand out in one run
MaxChats == 2
\* messages in the transcript of the current session
MaxMsgs == 2
\* requests the page may issue in one run
MaxRequests == 2

\* what the user may type, and what ?query= may hold
Queries == {"q1"}
UrlQueries == {" q2"}

\* String.prototype.trim
Trim(text) == IF text = " q2" THEN "q2" ELSE text

\* ---- messages

NoMeta == [templateMatches |-> <<>>, questions |-> <<>>, draft |-> <<>>,
           prefilled |-> NoAnswers]
OfferMeta(matches) == [NoMeta EXCEPT !.templateMatches = matches]
QuestionsMeta(qs, pre) == [NoMeta EXCEPT !.questions = qs, !.prefilled = pre]
DraftMeta(d) == [NoMeta EXCEPT !.draft = <<d>>]

\* content is the list of paragraphs that '\n\n' separates
Message(type, content, metadata) ==
    [type |-> type, content |-> <<content>>, metadata |-> metadata]

SearchingText == "Searching for matching templates..."
SearchingWebText == "Searching the web for templates..."
NotFoundText == "I couldn't find a matching template for your request."
OfferText == "I found matching templates. Here are the options:"
PerfectText(t) == "Perfect! I found a matching template: " \o t
ChoiceText(t) == "Great choice! Lets use " \o t
QuestionsText == "I need some information to generate your document."
NoVariablesText == "Your document has been generated. No variables were needed!"
ErrorText(msg, fallback) ==
    "I encountered an error: " \o (IF msg # "" THEN msg ELSE fallback) \o ". Please try again."

\* addMessage whose replace-last mode drops the last message and appends
addMessageRewritesList(prev, type, content, metadata, replaceLast, appendToLast) ==
    LET newMessage == Message(type, content, metadata)
    IN  IF replaceLast
        THEN IF Len(prev) > 1
             THEN <<prev[Len(prev)], newMessage>>
             ELSE IF prev = <<>> THEN prev ELSE <<newMessage>>
        ELSE IF appendToLast
        THEN IF Len(prev) > 0
             THEN [prev EXCEPT ![Len(prev)].content = @ \o <<content>>]
             ELSE Append(prev, newMessage)
        ELSE Append(prev, newMessage)

\* addMessage whose append-to-last branch has no else: nothing is pushed
\* onto an empty list
addMessageSkipsEmpty(prev, type, content, metadata, replaceLast, appendToLast) ==
    LET newMessage == Message(type, content, metadata)
    IN  IF replaceLast
        THEN IF prev = <<>> THEN prev ELSE [prev EXCEPT ![Len(prev)] = newMessage]
        ELSE IF appendToLast
        THEN IF Len(prev) > 0
             THEN [prev EXCEPT ![Len(prev)].content = @ \o <<content>>]
             ELSE prev
        ELSE Append(prev, newMessage)

\* addMessage (page.tsx:348-379), as the updater it hands to setMessages
addMessage(prev, type, content, metadata, replaceLast, appendToLast) ==
    LET newMessage == Message(type, content, metadata)
    IN  IF replaceLast
        THEN \* updated[updated.length - 1] = newMessage: on an empty list this
             \* sets property -1 and the list stays empty
             IF prev = <<>> THEN prev ELSE [prev EXCEPT ![Len(prev)] = newMessage]
        ELSE IF appendToLast
        THEN IF Len(prev) > 0
             THEN [prev EXCEPT ![Len(prev)].content = @ \o <<content>>]
             ELSE Append(prev, newMessage)
        ELSE Append(prev, newMessage)

\* ---- sessions

\* generateChatTitle (page.tsx:122-125)
generateChatTitle(firstMessage) == Trim(firstMessage)

\* messages.find(msg => msg.type === 'user'), then the title
TitleOf(msgs) ==
    IF \E i \in 1..Len(msgs) : msgs[i].type = "user"
    THEN LET i == CHOOSE k \in 1..Len(msgs) :
                      msgs[k].type = "user" /\ \A j \in 1..(k - 1) : msgs[j].type # "user"
         IN  generateChatTitle(msgs[i].content[1])
    ELSE "New Chat"

HasAnswers(a) == \E k \in Keys : a[k] # Absent

\* the ChatSession object built at page.tsx:134-144 and page.tsx:183-193
Snapshot(c) ==
    [id |-> c.currentChatId,
     title |-> TitleOf(c.messages),
     messages |-> c.messages,
     templateId |-> IF c.selectedTemplateId = NULL THEN <<>> ELSE <<c.selectedTemplateId>>,
     questions |-> IF Len(c.questions) > 0 THEN <<c.questions>> ELSE <<>>,
     answers |-> IF HasAnswers(c.answers) THEN <<c.answers>> ELSE <<>>,
     draft |-> c.draft]

\* prev.findIndex(chat => chat.id === id), 0 when there is none
FindIndex(h, id) ==
    IF \E i \in 1..Len(h) : h[i].id = id
    THEN CHOOSE i \in 1..Len(h) : h[i].id = id /\ \A j \in 1..(i - 1) : h[j].id # id
    ELSE 0

\* updateCurrentChatInHistory that adds the session when it is not listed and
\* leaves a listed one as it is
updateCurrentChatInHistoryAddsOnly(s) ==
    IF s.currentChatId = 0 \/ s.messages = <<>>
    THEN s.chatHistory
    ELSE IF FindIndex(s.chatHistory, s.currentChatId) > 0
         THEN s.chatHistory
         ELSE <<Snapshot(s)>> \o s.chatHistory

\* updateCurrentChatInHistory (page.tsx:128-158): the history list after it
updateCurrentChatInHistory(s) ==
    IF s.currentChatId = 0 \/ s.messages = <<>>
    THEN s.chatHistory
    ELSE LET updatedChat == Snapshot(s)
             existingIndex == FindIndex(s.chatHistory, s.currentChatId)
         IN  IF existingIndex > 0
             THEN [s.chatHistory EXCEPT ![existingIndex] = updatedChat]
             ELSE <<updatedChat>> \o s.chatHistory

\* createNewChat that never looks the session up and always adds it in front
createNewChatAlwaysAdds(s, c, newChatId) ==
    LET saved == IF c.currentChatId # 0 /\ Len(c.messages) > 0
                 THEN <<Snapshot(c)>> \o s.chatHistory
                 ELSE s.chatHistory
    IN  [FirstRender EXCEPT !.chatHistory = saved, !.currentChatId = newChatId]

\* createNewChat without setAnswers({}) and setPrefilledFields({})
createNewChatKeepsAnswers(s, c, newChatId) ==
    LET existingChatIndex == FindIndex(c.chatHistory, c.currentChatId)
        saved ==
            IF c.currentChatId # 0 /\ Len(c.messages) > 0
            THEN IF existingChatIndex > 0
                 THEN [i \in 1..Len(s.chatHistory) |->
                          IF i = existingChatIndex THEN Snapshot(c) ELSE s.chatHistory[i]]
                 ELSE <<Snapshot(c)>> \o s.chatHistory
            ELSE s.chatHistory
    IN  [FirstRender EXCEPT !.chatHistory = saved, !.currentChatId = newChatId,
                            !.answers = s.answers, !.prefilledFields = s.prefilledFields]

\* createNewChat (page.tsx:175-226) run on state s by a closure that captured
\* state c; newChatId is the fresh id
createNewChat(s, c, newChatId) ==
    LET currentChat == Snapshot(c)
        existingChatIndex == FindIndex(c.chatHistory, c.currentChatId)
        saved ==
            IF c.currentChatId # 0 /\ Len(c.messages) > 0
            THEN IF existingChatIndex > 0
                 THEN [i \in 1..Len(s.chatHistory) |->
                          IF i = existingChatIndex THEN currentChat ELSE s.chatHistory[i]]
                 ELSE <<currentChat>> \o s.chatHistory
            ELSE s.chatHistory
    IN  [FirstRender EXCEPT !.chatHistory = saved, !.currentChatId = newChatId]

\* switchToChat without setPrefilledFields({}) and setShowSidebar
switchToChatKeepsSidebar(s, chatId) ==
    LET i == FindIndex(s.chatHistory, chatId)
        chat == s.chatHistory[i]
    IN  IF i = 0 THEN s
        ELSE [s EXCEPT
                !.currentChatId = chatId,
                !.messages = chat.messages,
                !.selectedTemplateId = IF chat.templateId = <<>> THEN NULL ELSE chat.templateId[1],
                !.questions = IF chat.questions = <<>> THEN <<>> ELSE chat.questions[1],
                !.answers = IF chat.answers = <<>> THEN NoAnswers ELSE chat.answers[1],
                !.draft = chat.draft,
                !.activeTab = IF chat.draft # <<>> THEN "document" ELSE "variables"]

\* switchToChat without setDraft
switchToChatDropsDraft(s, chatId) ==
    LET i == FindIndex(s.chatHistory, chatId)
        chat == s.chatHistory[i]
    IN  IF i = 0 THEN s
        ELSE [s EXCEPT
                !.currentChatId = chatId,
                !.messages = chat.messages,
                !.selectedTemplateId = IF chat.templateId = <<>> THEN NULL ELSE chat.templateId[1],
                !.questions = IF chat.questions = <<>> THEN <<>> ELSE chat.questions[1],
                !.answers = IF chat.answers = <<>> THEN NoAnswers ELSE chat.answers[1],
                !.prefilledFields = NoAnswers,
                !.showSidebar = ((chat.questions # <<>> /\ Len(chat.questions[1]) > 0)
                                  \/ chat.draft # <<>>),
                !.activeTab = IF chat.draft # <<>> THEN "document" ELSE "variables"]

\* switchToChat (page.tsx:229-253)
switchToChat(s, chatId) ==
    LET i == FindIndex(s.chatHistory, chatId)
        chat == s.chatHistory[i]
    IN  IF i = 0 THEN s
        ELSE [s EXCEPT
                !.currentChatId = chatId,
                !.messages = chat.messages,
                !.selectedTemplateId = IF chat.templateId = <<>> THEN NULL ELSE chat.templateId[1],
                !.questions = IF chat.questions = <<>> THEN <<>> ELSE chat.questions[1],
                !.answers = IF chat.answers = <<>> THEN NoAnswers ELSE chat.answers[1],
                !.prefilledFields = NoAnswers,
                !.draft = chat.draft,
                !.showSidebar = ((chat.questions # <<>> /\ Len(chat.questions[1]) > 0)
                                  \/ chat.draft # <<>>),
                !.activeTab = IF chat.draft # <<>> THEN "document" ELSE "variables"]

\* JSON.stringify(chatHistory) / JSON.parse(savedHistory): the text keeps every
\* field of every session in order; a field that is undefined is left out and
\* is undefined again after the parse
JSONstringify(h) == [text |-> h]
JSONparse_history(t) == t.text

\* ---- effects

\* the dependency list of the update effect (page.tsx:172)
Deps(s) == <<s.messages, s.selectedTemplateId, s.questions, s.answers, s.draft,
             s.currentChatId>>

\* the state after the update effect has run on the state s a handler left
AfterEffects(s) ==
    IF Deps(s) # Deps(Cur)
    THEN [s EXCEPT !.chatHistory = updateCurrentChatInHistory(s)]
    ELSE s

\* the handler's state updates, the update effect and the save effect
Commit(s) ==
    LET t == AfterEffects(s)
    IN  /\ chatHistory' = t.chatHistory
        /\ currentChatId' = t.currentChatId
        /\ messages' = t.messages
        /\ userQuery' = t.userQuery
        /\ isLoading' = t.isLoading
        /\ topMatch' = t.topMatch
        /\ alternatives' = t.alternatives
        /\ selectedTemplateId' = t.selectedTemplateId
        /\ answers' = t.answers
        /\ questions' = t.questions
        /\ prefilledFields' = t.prefilledFields
        /\ draft' = t.draft
        /\ showSidebar' = t.showSidebar
        /\ activeTab' = t.activeTab
        /\ storage' = IF t.chatHistory # chatHistory /\ Len(t.chatHistory) > 0
                      THEN <<JSONstringify(t.chatHistory)>>
                      ELSE storage

\* history: which handler ran last, for the handlers the properties ask about.
\* A switchToChat is recorded with the session it left; one that goes straight
\* back to the session the previous switchToChat left is recorded as a return
SwitchedFrom(chat) == "switchToChat from " \o ToString(chat)
SwitchedBack == "switchToChat back"
SwitchLabels == {SwitchedBack} \cup { SwitchedFrom(i) : i \in 0..(MaxChats + 1) }
Recorded == {"rejected", "success:single", "success:offer", "error", "onError",
             "generateDraft:rejected"}
Did(name, chat, detail) ==
    lastAction' = IF name = "switchToChat"
                  THEN IF chat # currentChatId /\ lastAction = SwitchedFrom(chat)
                       THEN SwitchedBack
                       ELSE SwitchedFrom(currentChatId)
                  ELSE IF name = "createNewChat" THEN name
                  ELSE IF detail \in Recorded THEN detail
                  ELSE "other"

\* ---- the page after mount: no stored history; with ?query= the initial-query
\* effect (page.tsx:516-547) has armed its 500 ms timer
InitChatVars ==
    /\ PageIs(FirstRender)
    /\ isProcessingRef = FALSE
    /\ storage = <<>>
    /\ initialQuery \in UrlQueries \cup {""}
    /\ timer = IF initialQuery # "" THEN "pending" ELSE "none"
    /\ nextChatId = 1
    /\ requests = <<>>
    /\ lastAction = NoAction

\* handleInputChange (page.tsx:653-665); the textarea is disabled while loading
handleInputChange ==
    /\ ~isLoading
    /\ \E value \in Queries :
         /\ value # userQuery
         /\ Commit([Cur EXCEPT !.userQuery = value])
         /\ Did("handleInputChange", currentChatId, value)
    /\ UNCHANGED <<isProcessingRef, initialQuery, timer, nextChatId, requests>>
    /\ UNCHANGED <<apiVars, streamVars, extraVars>>

\* handleReset (page.tsx:629-631): the "new draft" button
handleReset ==
    /\ nextChatId <= MaxChats
    /\ Commit(createNewChat(Cur, Cur, nextChatId))
    /\ nextChatId' = nextChatId + 1
    /\ Did("createNewChat", nextChatId, "")
    /\ UNCHANGED <<isProcessingRef, initialQuery, timer, requests>>
    /\ UNCHANGED <<apiVars, streamVars, extraVars>>

\* a click on an entry of the history list (page.tsx:907)
SwitchToChat ==
    /\ \E i \in 1..Len(chatHistory) :
         /\ Commit(switchToChat(Cur, chatHistory[i].id))
         /\ Did("switchToChat", chatHistory[i].id, "")
    /\ UNCHANGED <<isProcessingRef, initialQuery, timer, nextChatId, requests>>
    /\ UNCHANGED <<apiVars, streamVars, extraVars>>

\* ---- requests

MatchRequest(query, closureQuery, chat) ==
    [kind |-> "match", query |-> query, templateId |-> NULL, gq |-> closureQuery,
     phase |-> "open", chat |-> chat]
\* getQuestions(templateId, userQuery) sends user_query: userQuery || null
QuestionsRequest(templateId, closureQuery, chat) ==
    [kind |-> "questions", query |-> IF closureQuery = "" THEN NULL ELSE closureQuery,
     templateId |-> templateId, gq |-> closureQuery, phase |-> "open", chat |-> chat]

\* a request that has completed
Completed == [kind |-> "done", query |-> NULL, templateId |-> NULL, gq |-> "",
              phase |-> "done", chat |-> 0]

OpenStreams == { i \in 1..Len(requests) : requests[i].kind = "match" /\ requests[i].phase = "open" }

\* if (isProcessingRef.current) return;
GuardIgnored(flag) == FALSE
GuardBlocks(flag) == flag

\* handleGetQuestions up to its first await (page.tsx:381-386), on state s
handleGetQuestionsStart(s) == [s EXCEPT !.isLoading = TRUE]

\* handleStartMatching (page.tsx:434-513) run by a closure that captured state c
handleStartMatching(c, queryOverride) ==
    LET query == IF queryOverride # "" THEN queryOverride ELSE c.userQuery
        creates == c.currentChatId = 0
        s1 == IF creates THEN createNewChat(Cur, c, nextChatId) ELSE Cur
    IN  IF Trim(query) = ""
        THEN \* setError('Please enter a description'); return
             /\ Commit(Cur)
             /\ Did("handleStartMatching", currentChatId, "empty")
             /\ UNCHANGED <<isProcessingRef, nextChatId, requests>>
        ELSE /\ creates => nextChatId <= MaxChats
             /\ nextChatId' = IF creates THEN nextChatId + 1 ELSE nextChatId
             /\ IF GuardBlocks(isProcessingRef)
                THEN /\ Commit(s1)
                     /\ Did("handleStartMatching", s1.currentChatId, "rejected")
                     /\ UNCHANGED <<isProcessingRef, requests>>
                ELSE /\ Len(requests) < MaxRequests
                     /\ Len(s1.messages) < MaxMsgs
                     /\ isProcessingRef' = TRUE
                     /\ Commit([s1 EXCEPT
                                  !.isLoading = TRUE,
                                  !.userQuery = IF queryOverride = "" THEN "" ELSE @,
                                  !.messages = addMessage(@, "user", query, NoMeta, FALSE, FALSE)])
                     /\ requests' = Append(requests, MatchRequest(query, c.userQuery, s1.currentChatId))
                     /\ Did("handleStartMatching", s1.currentChatId, "started")

\* the send button or Enter in the textarea (page.tsx:645, 1083), both
\* unavailable while isLoading
Submit ==
    /\ ~isLoading
    /\ handleStartMatching(Cur, "")
    /\ UNCHANGED <<initialQuery, timer>>
    /\ UNCHANGED <<apiVars, streamVars, extraVars>>

\* setTimeout(() => handleStartMatching(query), 500) of the first render
\* (page.tsx:538-544)
AutoSubmit ==
    /\ timer = "pending"
    /\ timer' = "fired"
    /\ handleStartMatching(FirstRender, initialQuery)
    /\ UNCHANGED initialQuery
    /\ UNCHANGED <<apiVars, streamVars, extraVars>>

\* ---- the match stream, as matchTemplateStream hands it to the two callbacks

\* update.data of a success status: absent, or a TemplateMatchResponseBody
NoData == [present |-> FALSE, found |-> FALSE, top_match |-> NULL, alternatives |-> <<>>]
MatchBodies ==
    { [present |-> TRUE, found |-> FALSE, top_match |-> NULL, alternatives |-> <<>>],
      [present |-> TRUE, found |-> TRUE, top_match |-> "t1", alternatives |-> <<>>],
      [present |-> TRUE, found |-> TRUE, top_match |-> "t1", alternatives |-> <<"t2">>] }
Updates ==
    { [status |-> st, message |-> "", data |-> NoData] : st \in {"searching", "searching_web", "no_templates"} }
    \cup { [status |-> "success", message |-> "", data |-> d] : d \in MatchBodies \cup {NoData} }
    \cup { [status |-> "error", message |-> "backend failed", data |-> NoData] }

\* result.alternatives.length > 0
AlwaysOffers(alts) == TRUE
HasAlternatives(alts) == Len(alts) > 0

UpdateKind(update) ==
    IF update.status # "success" THEN update.status
    ELSE IF ~update.data.present THEN "success:nodata"
    ELSE IF ~update.data.found \/ update.data.top_match = NULL THEN "success:notfound"
    ELSE IF Len(update.data.alternatives) > 0 THEN "success:offer"
    ELSE "success:single"

\* the onStatusUpdate callback (page.tsx:467-506) of the stream requests[i]
OnStatusUpdate ==
    \E i \in OpenStreams, update \in Updates :
      LET result == update.data
          replaced(text, meta) == addMessage(messages, "assistant", text, meta, TRUE, FALSE)
          idle == [Cur EXCEPT !.isLoading = FALSE]
      IN
      /\ requests' =
            LET ended == IF IsTerminal(update.status)
                         THEN [requests EXCEPT ![i] = Completed]
                         ELSE requests
            IN  IF UpdateKind(update) = "success:single" /\ ~HasAlternatives(result.alternatives)
                THEN Append(ended, QuestionsRequest(result.top_match, requests[i].gq, currentChatId))
                ELSE ended
      /\ UpdateKind(update) = "success:single" => Len(requests) < MaxRequests
      /\ Did("onStatusUpdate", currentChatId, UpdateKind(update))
      /\ IF update.status = "searching"
         THEN /\ Len(messages) < MaxMsgs
              /\ Commit([Cur EXCEPT !.messages =
                            addMessage(@, "assistant", SearchingText, NoMeta, FALSE, FALSE)])
              /\ UNCHANGED isProcessingRef
         ELSE IF update.status = "searching_web"
         THEN /\ Commit([Cur EXCEPT !.messages = replaced(SearchingWebText, NoMeta)])
              /\ UNCHANGED isProcessingRef
         ELSE IF update.status = "success" /\ result.present
         THEN /\ isProcessingRef' = FALSE
              /\ IF ~result.found \/ result.top_match = NULL
                 THEN Commit([idle EXCEPT !.messages = replaced(NotFoundText, NoMeta)])
                 ELSE IF HasAlternatives(result.alternatives)
                 THEN Commit([idle EXCEPT
                                !.topMatch = result.top_match,
                                !.alternatives = result.alternatives,
                                !.messages = replaced(OfferText,
                                    OfferMeta(<<result.top_match>> \o result.alternatives))])
                 ELSE \* handleGetQuestions sets isLoading, line 495 clears it again
                      Commit([handleGetQuestionsStart(Cur) EXCEPT
                                !.topMatch = result.top_match,
                                !.alternatives = result.alternatives,
                                !.messages = replaced(PerfectText(result.top_match), NoMeta),
                                !.selectedTemplateId = result.top_match,
                                !.isLoading = FALSE])
         ELSE IF update.status = "error"
         THEN /\ isProcessingRef' = FALSE
              /\ Commit([idle EXCEPT !.messages =
                            replaced(ErrorText(update.message, "Failed to match template"), NoMeta)])
         ELSE IF update.status = "no_templates"
         THEN /\ isProcessingRef' = FALSE
              /\ Commit([idle EXCEPT !.messages = replaced(NotFoundText, NoMeta)])
         ELSE \* success without data: no branch of the callback applies
              /\ Commit(Cur)
              /\ UNCHANGED isProcessingRef
      /\ UNCHANGED <<initialQuery, timer, nextChatId>>
      /\ UNCHANGED <<apiVars, streamVars, extraVars>>

\* error.message of the onError callback
StreamErrors == {ParseFailure}

\* the onError callback (page.tsx:507-511): an HTTP error status, a transport
\* failure or a data line that does not parse (api.ts:180, 191)
OnError ==
    \E i \in OpenStreams, msg \in StreamErrors :
      /\ requests' = [requests EXCEPT ![i] = Completed]
      /\ isProcessingRef' = FALSE
      /\ Commit([Cur EXCEPT
                   !.isLoading = FALSE,
                   !.messages = addMessage(@, "assistant",
                                    ErrorText(msg, "Connection failed"), NoMeta, TRUE, FALSE)])
      /\ Did("onError", currentChatId, "onError")
      /\ UNCHANGED <<initialQuery, timer, nextChatId>>
      /\ UNCHANGED <<apiVars, streamVars, extraVars>>

\* reader.read() answers done (api.ts:159): the chain ends and calls nothing
StreamCloses ==
    \E i \in OpenStreams :
      /\ requests' = [requests EXCEPT ![i] = Completed]
      /\ Did("streamCloses", currentChatId, "")
      /\ UNCHANGED <<pageVars, isProcessingRef, storage, initialQuery, timer, nextChatId>>
      /\ UNCHANGED <<apiVars, streamVars, extraVars>>

\* ---- questions

\* what POST /api/v1/draft/questions may answer for template t
QuestionResults(t) ==
    { [questions |-> <<>>, prefilled |-> NoAnswers],
      [questions |-> <<KeyOf(t)>>, prefilled |-> NoAnswers],
      [questions |-> <<KeyOf(t)>>, prefilled |-> [NoAnswers EXCEPT ![KeyOf(t)] = "pre"]] }

\* a GenerateDraftResponseBody: the template and the answers it was made from
DraftOf(t, a) == [template_id |-> t, answers |-> a]

\* the messages an API call may reject with (handleResponse, axios)
ApiErrors == {"X"}

OpenQuestions(phase) ==
    { i \in 1..Len(requests) : requests[i].kind = "questions" /\ requests[i].phase = phase }

\* handleGetQuestions after await getQuestions resolved (page.tsx:388-425)
QuestionsResolve ==
    \E i \in OpenQuestions("open") :
      \E result \in QuestionResults(requests[i].templateId) :
        LET s1 == [Cur EXCEPT
                     !.answers = result.prefilled,
                     !.prefilledFields = result.prefilled,
                     !.questions = result.questions,
                     !.showSidebar = TRUE,
                     !.activeTab = "variables"]
        IN  /\ IF Len(result.questions) = 0
               THEN \* await generateDraft(templateId, {}, userQuery)
                    /\ Commit(s1)
                    /\ requests' = [requests EXCEPT ![i].phase = "draft"]
               ELSE /\ Commit([s1 EXCEPT
                                 !.messages = addMessage(@, "assistant", QuestionsText,
                                     QuestionsMeta(result.questions, result.prefilled),
                                     FALSE, TRUE),
                                 !.isLoading = FALSE])
                    /\ requests' = [requests EXCEPT ![i] = Completed]
            /\ Did("questionsResolve", currentChatId, requests[i].templateId)
    /\ UNCHANGED <<isProcessingRef, initialQuery, timer, nextChatId>>
    /\ UNCHANGED <<apiVars, streamVars, extraVars>>

\* handleGetQuestions: getQuestions rejected (page.tsx:426-431)
QuestionsReject ==
    \E i \in OpenQuestions("open"), msg \in ApiErrors :
      /\ Commit([Cur EXCEPT
                   !.messages = addMessage(@, "assistant",
                                    ErrorText(msg, "Failed to generate questions"),
                                    NoMeta, TRUE, FALSE),
                   !.isLoading = FALSE])
      /\ requests' = [requests EXCEPT ![i] = Completed]
      /\ Did("questionsReject", currentChatId, requests[i].templateId)
    /\ UNCHANGED <<isProcessingRef, initialQuery, timer, nextChatId>>
    /\ UNCHANGED <<apiVars, streamVars, extraVars>>

\* handleGetQuestions: the generateDraft of the no-questions path resolved
\* (page.tsx:405-410, 430)
NoQuestionsDraftResolve ==
    \E i \in OpenQuestions("draft") :
      LET draftResult == DraftOf(requests[i].templateId, NoAnswers)
      IN  /\ Commit([Cur EXCEPT
                       !.draft = <<draftResult>>,
                       !.messages = addMessage(@, "assistant", NoVariablesText,
                                        DraftMeta(draftResult), TRUE, FALSE),
                       !.activeTab = "document",
                       !.isLoading = FALSE])
          /\ requests' = [requests EXCEPT ![i] = Completed]
          /\ Did("draftResolve", currentChatId, requests[i].templateId)
    /\ UNCHANGED <<isProcessingRef, initialQuery, timer, nextChatId>>
    /\ UNCHANGED <<apiVars, streamVars, extraVars>>

\* handleGetQuestions: that generateDraft rejected (page.tsx:426-431)
NoQuestionsDraftReject ==
    \E i \in OpenQuestions("draft"), msg \in ApiErrors :
      /\ Commit([Cur EXCEPT
                   !.messages = addMessage(@, "assistant",
                                    ErrorText(msg, "Failed to generate questions"),
                                    NoMeta, TRUE, FALSE),
                   !.isLoading = FALSE])
      /\ requests' = [requests EXCEPT ![i] = Completed]
      /\ Did("draftReject", currentChatId, requests[i].templateId)
    /\ UNCHANGED <<isProcessingRef, initialQuery, timer, nextChatId>>
    /\ UNCHANGED <<apiVars, streamVars, extraVars>>

\* handleSelectTemplate (page.tsx:549-557): a click on an offered template
handleSelectTemplate ==
    \E i \in 1..Len(messages) :
      \E j \in 1..Len(messages[i].metadata.templateMatches) :
        LET templateId == messages[i].metadata.templateMatches[j]
            template == IF \E k \in 1..Len(alternatives) : alternatives[k] = templateId
                        THEN templateId ELSE topMatch
            said == IF template # NULL
                    THEN addMessage(messages, "assistant", ChoiceText(template),
                                    NoMeta, FALSE, FALSE)
                    ELSE messages
        IN  /\ Len(requests) < MaxRequests
            /\ Len(said) <= MaxMsgs
            /\ Commit([handleGetQuestionsStart(Cur) EXCEPT
                         !.messages = said,
                         !.selectedTemplateId = templateId])
            /\ requests' = Append(requests,
                               QuestionsRequest(templateId, userQuery, currentChatId))
            /\ Did("handleSelectTemplate", currentChatId, templateId)
    /\ UNCHANGED <<isProcessingRef, initialQuery, timer, nextChatId>>
    /\ UNCHANGED <<apiVars, streamVars, extraVars>>

Init == InitChatVars /\ ApiIdle /\ StreamIdle /\ ExtraIdle

Next ==
    \/ handleInputChange
    \/ Submit
    \/ AutoSubmit
    \/ OnStatusUpdate
    \/ OnError
    \/ StreamCloses
    \/ QuestionsResolve
    \/ QuestionsReject
    \/ NoQuestionsDraftResolve
    \/ NoQuestionsDraftReject
    \/ handleSelectTemplate
    \/ handleReset
    \/ SwitchToChat

Spec == Init /\ [][Next]_vars

\* ---- properties of the chat page

\* localStorage's chatHistory as JSON.parse reads it back
Persisted(st) == IF st = <<>> THEN <<>> ELSE JSONparse_history(st[1])
PersistedIds(st) == { Persisted(st)[i].id : i \in 1..Len(Persisted(st)) }
PersistedChat(st, id) == Persisted(st)[FindIndex(Persisted(st), id)]

\* the five restored values as a persisted session holds them; an absent field
\* reads as the empty value the page starts with
HeldBy(chat) ==
    [messages |-> chat.messages,
     selectedTemplateId |-> IF chat.templateId = <<>> THEN NULL ELSE chat.templateId[1],
     questions |-> IF chat.questions = <<>> THEN <<>> ELSE chat.questions[1],
     answers |-> IF chat.answers = <<>> THEN NoAnswers ELSE chat.answers[1],
     draft |-> chat.draft]
Shown ==
    [messages |-> messages, selectedTemplateId |-> selectedTemplateId,
     questions |-> questions, answers |-> answers, draft |-> draft]

\* C1: a switchToChat to a session S shows exactly the messages, selected
\* template, questions, answers and draft that the persisted history holds for
\* S and leaves the persisted history as it is; and no step taken while S is
\* not the current session changes what is persisted for S. So a switch away
\* from S and back restores S as it was last persisted.
C1_SwitchBackRestoresPersisted ==
    [][ /\ lastAction' \in SwitchLabels =>
             /\ currentChatId' \in PersistedIds(storage)
             /\ Shown' = HeldBy(PersistedChat(storage, currentChatId'))
             /\ storage' = storage
        /\ \A id \in PersistedIds(storage) \ {currentChatId, currentChatId'} :
             /\ id \in PersistedIds(storage')
             /\ PersistedChat(storage', id) = PersistedChat(storage, id)
      ]_vars

\* the user went from session 1 to session 2 and straight back: session 1 is
\* shown again, and the two sessions differ
C1_Witness ==
    /\ lastAction = SwitchedBack
    /\ currentChatId = 1
    /\ messages # <<>>
    /\ 2 \in PersistedIds(storage)
    /\ PersistedChat(storage, 2).messages # messages

\* a step that issues a match request
IssuesMatch ==
    /\ Len(requests') = Len(requests) + 1
    /\ requests'[Len(requests')].kind = "match"

\* C8: at most one match stream is in flight; the guard is set while one is,
\* and from the step that issues it; a submission made while the guard is set
\* issues no match request.
C8_AtMostOneMatchStream ==
    [][ /\ Cardinality(OpenStreams') <= 1
        /\ OpenStreams' # {} => isProcessingRef'
        /\ IssuesMatch => ~isProcessingRef /\ isProcessingRef'
        /\ isProcessingRef => ~IssuesMatch
      ]_vars

\* a submission was turned away by the guard while a match stream is in flight
C8_Witness ==
    /\ lastAction = "rejected"
    /\ isProcessingRef
    /\ Cardinality(OpenStreams) = 1

\* C9: the step in which a match stream ends (a terminal status, an error
\* callback, or the stream closing) leaves the guard cleared and the loading
\* flag false.
C9_EndedMatchClearsGuardAndLoading ==
    [][ (\E i \in OpenStreams : requests'[i] = Completed)
            => ~isProcessingRef' /\ ~isLoading'
      ]_vars

\* the messages that offer templates to choose from
Offers(msgs) == { k \in 1..Len(msgs) : msgs[k].metadata.templateMatches # <<>> }

\* C10: the step that handles a success status with found = true, a top match
\* and no alternatives selects the top match, issues the questions request for
\* it, and adds no message that offers templates.
C10_SingleMatchAutoSelects ==
    [][ lastAction' = "success:single" =>
          /\ selectedTemplateId' \in Templates
          /\ selectedTemplateId' = topMatch'
          /\ Len(requests') = Len(requests) + 1
          /\ LET issued == requests'[Len(requests')]
             IN  /\ issued.kind = "questions"
                 /\ issued.phase = "open"
                 /\ issued.templateId = selectedTemplateId'
          /\ Len(messages') = Len(messages)
          /\ Cardinality(Offers(messages')) <= Cardinality(Offers(messages))
      ]_vars

\* searching was shown, then the single match replaced it; the template is
\* selected and its questions request is in flight
C10_Witness ==
    /\ lastAction = "success:single"
    /\ selectedTemplateId = "t1"
    /\ Len(messages) = 2
    /\ messages[1].type = "user"
    /\ messages[2].content = <<PerfectText("t1")>>
    /\ Offers(messages) = {}
    /\ requests # <<>>
    /\ requests[Len(requests)].kind = "questions"
    /\ requests[Len(requests)].templateId = "t1"
    /\ requests[Len(requests)].phase = "open"

\* C11: the step that handles a success status with a top match and at least
\* one alternative leaves the transcript ending in one assistant message whose
\* options are the top match followed by the alternatives, leaves the selected
\* template as it was, and issues no request.
C11_OfferShowsAllOptions ==
    [][ lastAction' = "success:offer" =>
          /\ Len(alternatives') > 0
          /\ messages' # <<>>
          /\ LET shown == messages'[Len(messages')]
             IN  /\ shown.type = "assistant"
                 /\ shown.metadata.templateMatches = <<topMatch'>> \o alternatives'
          /\ Cardinality(Offers(messages')) <= Cardinality(Offers(messages)) + 1
          /\ selectedTemplateId' = selectedTemplateId
          /\ Len(requests') = Len(requests)
          /\ OpenQuestions("open")' = OpenQuestions("open")
      ]_vars

\* the user messages of a transcript, by position
UserMessages(msgs) == { k \in 1..Len(msgs) : msgs[k].type = "user" }

\* C12: the step that handles a failed match stream (an error status or the
\* error callback) keeps every user message of the transcript where it was,
\* ends the transcript with an assistant message, and issues no request.
C12_MatchFailureKeepsTranscript ==
    [][ lastAction' \in {"error", "onError"} =>
          /\ \A k \in UserMessages(messages) :
               k <= Len(messages') /\ messages'[k] = messages[k]
          /\ messages' # <<>>
          /\ messages'[Len(messages')].type = "assistant"
          /\ Len(requests') = Len(requests)
      ]_vars

\* the entries of the history list h that have the id
EntriesOf(h, id) == { i \in 1..Len(h) : h[i].id = id }

\* C18: while the current session has a message, the history list holds the
\* session as it is now (messages, selected template, questions, answers and
\* draft) and localStorage's chatHistory is the serialization of the list.
C18_HistoryHoldsLatestState ==
    messages # <<>> =>
      /\ currentChatId # 0
      /\ \E i \in EntriesOf(chatHistory, currentChatId) : chatHistory[i] = Snapshot(Cur)
      /\ storage = <<JSONstringify(chatHistory)>>

\* a second session is current, it holds a selected template, questions and
\* a prefilled answer, and the first session is listed after it
C18_Witness ==
    /\ currentChatId = 2
    /\ Len(chatHistory) = 2
    /\ chatHistory[1].id = 2
    /\ chatHistory[1].templateId # <<>>
    /\ chatHistory[1].questions # <<>>
    /\ selectedTemplateId # NULL
    /\ questions # <<>>

CallsCreateNewChat == nextChatId' # nextChatId

\* the history list h without the entries of the session id
WithoutSession(h, id) == SelectSeq(h, LAMBDA chat : chat.id # id)

\* C20: a call of createNewChat leaves in the history list the snapshot of
\* the session it left when that session had a message, and changes nothing
\* in the list when it had none; the new session has a fresh id and no
\* selected template, questions, answers, prefilled fields or draft, and no
\* message but the one the calling handler adds after the call.
C20_NewChatSavesAndStartsFresh ==
    [][ CallsCreateNewChat =>
          /\ messages # <<>> =>
                \E i \in EntriesOf(chatHistory', currentChatId) : chatHistory'[i] = Snapshot(Cur)
          /\ messages = <<>> => WithoutSession(chatHistory', currentChatId') = chatHistory
          /\ currentChatId' = nextChatId
          /\ currentChatId' # currentChatId
          /\ EntriesOf(chatHistory, currentChatId') = {}
          /\ selectedTemplateId' = NULL
          /\ questions' = <<>>
          /\ answers' = NoAnswers
          /\ prefilledFields' = NoAnswers
          /\ draft' = <<>>
          /\ IF lastAction' \in {"createNewChat", "rejected"}
             THEN messages' = <<>>
             ELSE Len(messages') = 1 /\ messages'[1].type = "user"
      ]_vars

\* the "new draft" button was used in a session that held two messages,
\* a selected template, questions and a prefilled answer
C20_Witness ==
    /\ lastAction = "createNewChat"
    /\ currentChatId = 2
    /\ messages = <<>>
    /\ Len(chatHistory) = 1
    /\ Len(chatHistory[1].messages) = 2
    /\ chatHistory[1].templateId # <<>>
    /\ chatHistory[1].questions # <<>>
    /\ chatHistory[1].answers # <<>>

\* the stream ended with a terminal status event in this step
TerminalEvents == {"success:single", "success:offer", "error"}

\* C21: when the terminal event of a match arrives, the transcript ends with
\* the user message of the query followed by one assistant message, whatever
\* number of searching events came before it.
C21_OneUserOneAssistantPerMatch ==
    [][ lastAction' \in TerminalEvents =>
          /\ Len(messages') >= 2
          /\ messages'[Len(messages') - 1].type = "user"
          /\ messages'[Len(messages')].type = "assistant"
      ]_vars

\* the content of the first message of type user in msgs
FirstUserContent(msgs) ==
    LET i == CHOOSE k \in UserMessages(msgs) : \A j \in UserMessages(msgs) : k <= j
    IN  msgs[i].content[1]

\* C23: the title of a listed session is the content of its first user
\* message, character for character, and a title taken from a user message
\* does not change afterwards.
C23_TitleIsFirstUserMessage ==
    [][ \A i \in 1..Len(chatHistory') :
          LET chat == chatHistory'[i]
          IN  /\ UserMessages(chat.messages) # {} =>
                    chat.title = FirstUserContent(chat.messages)
              /\ \A j \in EntriesOf(chatHistory, chat.id) :
                    UserMessages(chatHistory[j].messages) # {} =>
                        chat.title = chatHistory[j].title
      ]_vars

\* C24: after switchToChat has loaded a session, the sidebar is shown exactly
\* when the session holds a question or a draft, the tab is the document tab
\* exactly when it holds a draft, and answers, questions, draft, selected
\* template and prefilled fields are those of the loaded session, none of the
\* session that was left.
C24_SwitchRecomputesView ==
    [][ lastAction' \in SwitchLabels =>
          LET held == HeldBy(chatHistory[FindIndex(chatHistory, currentChatId')])
          IN  /\ showSidebar' = (Len(held.questions) > 0 \/ held.draft # <<>>)
              /\ activeTab' = (IF held.draft # <<>> THEN "document" ELSE "variables")
              /\ answers' = held.answers
              /\ questions' = held.questions
              /\ draft' = held.draft
              /\ selectedTemplateId' = held.selectedTemplateId
              /\ prefilledFields' = NoAnswers
      ]_vars

\* the user went from the second session, which holds questions and a
\* prefilled answer, to the first, which holds none
C24_Witness ==
    /\ lastAction = SwitchedFrom(2)
    /\ currentChatId = 1
    /\ questions = <<>>
    /\ answers = NoAnswers
    /\ ~showSidebar
    /\ \E i \in EntriesOf(chatHistory, 2) :
          chatHistory[i].questions # <<>> /\ chatHistory[i].answers # <<>>

\* the requests that a callback or a continuation of theirs ended or moved on
\* in this step
Progressed == { i \in 1..Len(requests) : requests'[i] # requests[i] }

\* C25: a result of a request started in another session than the current
\* one changes neither the messages, selected template, questions, answers
\* and draft of the current session nor the history list.
C25_ResultsStayInTheirSession ==
    [][ \A i \in Progressed :
          requests[i].chat # currentChatId =>
              /\ Shown' = Shown
              /\ chatHistory' = chatHistory
      ]_vars

\* C26: while no questions request is in flight and there are questions, the
\* questions and the answers are those of the selected template.
C26_QuestionsBelongToSelectedTemplate ==
    (OpenQuestions("open") = {} /\ OpenQuestions("draft") = {} /\ questions # <<>>) =>
        /\ selectedTemplateId # NULL
        /\ questions = <<KeyOf(selectedTemplateId)>>
        /\ \A k \in Keys : answers[k] # Absent => k = KeyOf(selectedTemplateId)

\* C27: a call of handleStartMatching that the guard rejects leaves the
\* session id, the messages, the selected template, questions, answers and
\* draft, and the history list as they were.
C27_RejectedSubmitChangesNothing ==
    [][ lastAction' = "rejected" =>
          /\ currentChatId' = currentChatId
          /\ Shown' = Shown
          /\ chatHistory' = chatHistory
      ]_vars

\* the requests of the chat page that are in flight
InFlight == { i \in 1..Len(requests) : requests[i] # Completed }

\* C28: while a match stream, a questions request or a draft request is in
\* flight, isLoading is true.
C28_LoadingWhileInFlight == InFlight # {} => isLoading

\* a step that issues a questions request
IssuesQuestions ==
    /\ Len(requests') = Len(requests) + 1
    /\ requests'[Len(requests')].kind = "questions"

\* C29: a questions request carries the user query its template was matched
\* for: the query of the match stream whose result selected the template,
\* and in every case a query the user gave.
C29_QuestionsCarryMatchedQuery ==
    [][ IssuesQuestions =>
          LET sent == requests'[Len(requests')].query
          IN  /\ \A i \in Progressed :
                    requests[i].kind = "match" => sent = requests[i].query
              /\ sent \in Queries \cup UrlQueries
      ]_vars

(***************************************************************************)
(* SpecDraft: the variables form of the chat page and handleGenerateDraft  *)
(* (src/app/chat/page.tsx), from the state in which the questions of an    *)
(* auto-selected template have been loaded                                 *)
(***************************************************************************)

\* messages in the transcript while drafts are generated
MaxTranscript == 6

\* what the user may enter in a field of the form
AnswerValues == {"", "a"}

GeneratePleaseText == "Please generate my document with the provided answers."
GeneratingText == "Generating your document..."
ReadyText == "Your document is ready! Here it is:"

\* the page after the query 'q1' matched the single template t1 and
\* getQuestions answered with one question, prefilled or not
QuestionsLoaded(result) ==
    LET shown == <<Message("user", "q1", NoMeta),
                   [Message("assistant", PerfectText("t1"), NoMeta)
                       EXCEPT !.content = @ \o <<QuestionsText>>]>>
        s == [FirstRender EXCEPT
                !.currentChatId = 1,
                !.messages = shown,
                !.topMatch = "t1",
                !.selectedTemplateId = "t1",
                !.answers = result.prefilled,
                !.prefilledFields = result.prefilled,
                !.questions = result.questions,
                !.showSidebar = TRUE]
    IN  [s EXCEPT !.chatHistory = updateCurrentChatInHistory(s)]

InitDraftVars ==
    /\ \E result \in QuestionResults("t1") :
         /\ Len(result.questions) > 0
         /\ PageIs(QuestionsLoaded(result))
    /\ isProcessingRef = FALSE
    /\ storage = <<JSONstringify(chatHistory)>>
    /\ initialQuery = ""
    /\ timer = "none"
    /\ nextChatId = 2
    /\ requests = <<Completed, Completed>>
    /\ lastAction = NoAction

\* generateDraft(selectedTemplateId, answers, userQuery): query holds the
\* answers the request carries
DraftRequest(templateId, sent, closureQuery, chat) ==
    [kind |-> "draft", query |-> sent, templateId |-> templateId, gq |-> closureQuery,
     phase |-> "open", chat |-> chat]

OpenDrafts == { i \in 1..Len(requests) : requests[i].kind = "draft" }

\* handleAnswerChange (page.tsx:559-561): an input of the form changes
handleAnswerChange ==
    /\ showSidebar /\ activeTab = "variables"
    /\ \E k \in 1..Len(questions), value \in AnswerValues :
         /\ answers[questions[k]] # value
         /\ Commit([Cur EXCEPT !.answers = [@ EXCEPT ![questions[k]] = value]])
         /\ Did("handleAnswerChange", currentChatId, value)
    /\ UNCHANGED <<isProcessingRef, initialQuery, timer, nextChatId, requests>>
    /\ UNCHANGED <<apiVars, streamVars, extraVars>>

\* the Variables tab button (page.tsx:1139)
showVariablesTab ==
    /\ showSidebar /\ activeTab # "variables"
    /\ Commit([Cur EXCEPT !.activeTab = "variables"])
    /\ Did("setActiveTab", currentChatId, "variables")
    /\ UNCHANGED <<isProcessingRef, initialQuery, timer, nextChatId, requests>>
    /\ UNCHANGED <<apiVars, streamVars, extraVars>>

\* handleGenerateDraft up to its await (page.tsx:601-612); the button is shown
\* under the form and disabled while isLoading (page.tsx:1268-1278)
handleGenerateDraft ==
    /\ showSidebar /\ activeTab = "variables" /\ Len(questions) > 0
    /\ ~isLoading
    /\ IF selectedTemplateId = NULL
       THEN /\ Commit(Cur)
            /\ UNCHANGED requests
       ELSE /\ Len(messages) + 2 <= MaxTranscript
            /\ Commit([Cur EXCEPT
                         !.isLoading = TRUE,
                         !.messages = addMessage(
                             addMessage(@, "user", GeneratePleaseText, NoMeta, FALSE, FALSE),
                             "assistant", GeneratingText, NoMeta, FALSE, FALSE)])
            /\ requests' = Append(requests,
                               DraftRequest(selectedTemplateId, answers, userQuery,
                                            currentChatId))
    /\ Did("handleGenerateDraft", currentChatId, "started")
    /\ UNCHANGED <<isProcessingRef, initialQuery, timer, nextChatId>>
    /\ UNCHANGED <<apiVars, streamVars, extraVars>>

\* handleGenerateDraft after generateDraft resolved (page.tsx:613-620, 624-626)
GenerateDraftResolve ==
    \E i \in OpenDrafts :
      LET result == DraftOf(requests[i].templateId, requests[i].query)
      IN  /\ Commit([Cur EXCEPT
                       !.draft = <<result>>,
                       !.messages = addMessage(@, "assistant", ReadyText,
                                        DraftMeta(result), TRUE, FALSE),
                       !.activeTab = "document",
                       !.isLoading = FALSE])
          /\ requests' = [requests EXCEPT ![i] = Completed]
          /\ Did("handleGenerateDraft", currentChatId, "generateDraft:resolved")
          /\ UNCHANGED <<isProcessingRef, initialQuery, timer, nextChatId>>
          /\ UNCHANGED <<apiVars, streamVars, extraVars>>

\* the catch and finally blocks of handleGenerateDraft (page.tsx:621-626) on
\* state s
generateDraftFailedClearsAnswers(s, msg) ==
    [s EXCEPT
       !.messages = addMessage(@, "assistant", ErrorText(msg, "Failed to generate draft"),
                        NoMeta, TRUE, FALSE),
       !.answers = NoAnswers,
       !.isLoading = FALSE]
generateDraftFailed(s, msg) ==
    [s EXCEPT
       !.messages = addMessage(@, "assistant", ErrorText(msg, "Failed to generate draft"),
                        NoMeta, TRUE, FALSE),
       !.isLoading = FALSE]

\* handleGenerateDraft: generateDraft rejected
GenerateDraftReject ==
    \E i \in OpenDrafts, msg \in ApiErrors :
      /\ Commit(generateDraftFailed(Cur, msg))
      /\ requests' = [requests EXCEPT ![i] = Completed]
      /\ Did("handleGenerateDraft", currentChatId, "generateDraft:rejected")
      /\ UNCHANGED <<isProcessingRef, initialQuery, timer, nextChatId>>
      /\ UNCHANGED <<apiVars, streamVars, extraVars>>

InitDraft == InitDraftVars /\ ApiIdle /\ StreamIdle /\ ExtraIdle

NextDraft ==
    \/ handleAnswerChange
    \/ showVariablesTab
    \/ handleGenerateDraft
    \/ GenerateDraftResolve
    \/ GenerateDraftReject

SpecDraft == InitDraft /\ [][NextDraft]_vars

\* the state SpecDraft starts from
QuestionsLoadedState ==
    /\ \E result \in QuestionResults("t1") :
         /\ Len(result.questions) > 0
         /\ PageIs(QuestionsLoaded(result))
    /\ requests = <<Completed, Completed>>
    /\ ~isProcessingRef
    /\ nextChatId = 2

\* C13: the step in which generateDraft fails inside handleGenerateDraft
\* leaves the answers, the question list, the selected template id and the
\* draft as they were and the loading flag false; the step that starts the
\* attempt leaves the four as they were too.
C13_FailedDraftKeepsForm ==
    [][ /\ lastAction' = "generateDraft:rejected" =>
             /\ answers' = answers
             /\ questions' = questions
             /\ selectedTemplateId' = selectedTemplateId
             /\ draft' = draft
             /\ ~isLoading'
        /\ Len(requests') > Len(requests) =>
             /\ answers' = answers
             /\ questions' = questions
             /\ selectedTemplateId' = selectedTemplateId
             /\ draft' = draft
      ]_vars

\* a second attempt failed: the draft of the first attempt and the answers are
\* still there and the button is enabled again
C13_Witness ==
    /\ lastAction = "generateDraft:rejected"
    /\ draft # <<>>
    /\ HasAnswers(answers)
    /\ answers[KeyOf("t1")] = "a"
    /\ questions # <<>>
    /\ ~isLoading

(***************************************************************************)
(* SpecUpload: the upload page (app/upload/page.tsx): validateFile, the    *)
(* drop zone, the file input and handleUpload                              *)
(***************************************************************************)

Pdf == "application/pdf"
Docx == "application/vnd.openxmlformats-officedocument.wordprocessingml.document"

\* file.type and file.size of the files the user may offer
FileTypes == {Pdf, Docx, "image/png", "text/plain", ""}
FileSizes == {0, 1, 10485759, 10485760, 10485761, 20971520}
Files == [type : FileTypes, size : FileSizes]

TypeErrorText == "Please upload a PDF or DOCX file"
SizeErrorText == "File size must be less than 10MB"

\* const validTypes
validTypesWithPng == {Pdf, Docx, "image/png"}
validTypes == {Pdf, Docx}
\* const maxSize
maxSize == 10 * 1024 * 1024

\* validateFile: the error text, or NULL for a file that passes
validateFileStrict(f) ==
    IF f.type \notin validTypes THEN TypeErrorText
    ELSE IF f.size >= maxSize THEN SizeErrorText
    ELSE NULL
validateFile(f) ==
    IF f.type \notin validTypes THEN TypeErrorText
    ELSE IF f.size > maxSize THEN SizeErrorText
    ELSE NULL

\* the body of handleDrop and of handleFileInput for the file f
Offer(f) ==
    LET validationError == validateFile(f)
    IN  /\ offered' = <<f>>
        /\ uploadResult' = NULL
        /\ IF validationError # NULL
           THEN uploadError' = validationError /\ UNCHANGED file
           ELSE uploadError' = NULL /\ file' = f

\* handleDrop: e.dataTransfer.files[0] is f
handleDrop ==
    /\ \E f \in Files : Offer(f)
    /\ UNCHANGED <<loading, uploaded>>
    /\ UNCHANGED <<apiVars, streamVars, chatVars, reloadVars>>

\* handleFileInput: e.target.files[0] is f
handleFileInput ==
    /\ \E f \in Files : Offer(f)
    /\ UNCHANGED <<loading, uploaded>>
    /\ UNCHANGED <<apiVars, streamVars, chatVars, reloadVars>>

\* handleUpload up to its await; the button is shown for file && !loading
handleUpload ==
    /\ file # NoFile /\ ~loading
    /\ loading' = TRUE
    /\ uploadError' = NULL
    /\ uploaded' = <<file>>
    /\ offered' = <<>>
    /\ UNCHANGED <<file, uploadResult>>
    /\ UNCHANGED <<apiVars, streamVars, chatVars, reloadVars>>

\* handleUpload: uploadDocument resolved
UploadResolve ==
    /\ loading
    /\ uploadResult' = "payload"
    /\ file' = NoFile
    /\ loading' = FALSE
    /\ offered' = <<>>
    /\ UNCHANGED <<uploadError, uploaded>>
    /\ UNCHANGED <<apiVars, streamVars, chatVars, reloadVars>>

\* handleUpload: uploadDocument rejected with error.message msg
UploadReject ==
    /\ loading
    /\ \E msg \in {"", "X"} :
         uploadError' = IF msg # "" THEN msg ELSE "Failed to upload document"
    /\ loading' = FALSE
    /\ offered' = <<>>
    /\ UNCHANGED <<file, uploadResult, uploaded>>
    /\ UNCHANGED <<apiVars, streamVars, chatVars, reloadVars>>

\* handleReset of the upload page
handleResetUpload ==
    /\ file' = NoFile
    /\ uploadResult' = NULL
    /\ uploadError' = NULL
    /\ offered' = <<>>
    /\ UNCHANGED <<loading, uploaded>>
    /\ UNCHANGED <<apiVars, streamVars, chatVars, reloadVars>>

InitUpload == UploadIdle /\ ReloadIdle /\ ApiIdle /\ StreamIdle /\ ChatIdle

NextUpload ==
    \/ handleDrop
    \/ handleFileInput
    \/ handleUpload
    \/ UploadResolve
    \/ UploadReject
    \/ handleResetUpload

SpecUpload == InitUpload /\ [][NextUpload]_vars

\* a PDF or a DOCX, by its MIME type
IsPdfOrDocx(f) ==
    \/ f.type = "application/pdf"
    \/ f.type = "application/vnd.openxmlformats-officedocument.wordprocessingml.document"

\* C14: a file that is neither PDF nor DOCX is turned away with the type error
\* text and does not become the selected file; the selected file and the file
\* passed to uploadDocument are always PDF or DOCX files of at most 10 MB.
C14_OnlyValidatedFilesSelected ==
    [][ /\ (offered' # <<>> /\ ~IsPdfOrDocx(offered'[1])) =>
             /\ uploadError' = "Please upload a PDF or DOCX file"
             /\ file' = file
             /\ uploaded' = uploaded
        /\ file' # NoFile => IsPdfOrDocx(file') /\ file'.size <= 10485760
        /\ uploaded' # <<>> => IsPdfOrDocx(uploaded'[1]) /\ uploaded'[1].size <= 10485760
      ]_vars

\* an image was offered after a PDF had been selected: the error is shown and
\* the PDF is still the selected file
C14_Witness ==
    /\ offered # <<>>
    /\ offered[1].type = "image/png"
    /\ uploadError = TypeErrorText
    /\ file # NoFile
    /\ file.type = Pdf

\* C15: a PDF or DOCX that is offered becomes the selected file exactly when
\* its size is at most 10 * 1024 * 1024 bytes, and is turned away with the size
\* error text otherwise.
C15_SizeBoundary ==
    [][ (offered' # <<>> /\ IsPdfOrDocx(offered'[1])) =>
          IF offered'[1].size <= 10485760
          THEN file' = offered'[1] /\ uploadError' = NULL
          ELSE file' = file /\ uploadError' = "File size must be less than 10MB"
      ]_vars

\* a file of exactly 10 MB is selected, and a file of 10 MB + 1 byte offered
\* after it was turned away
C15_Witness ==
    /\ file # NoFile
    /\ file.size = 10485760
    /\ offered # <<>>
    /\ offered[1].size = 10485761
    /\ IsPdfOrDocx(offered[1])
    /\ uploadError = SizeErrorText

(***************************************************************************)
(* SpecReload: the history list with its Date values (createdAt and        *)
(* updatedAt of a session, timestamp of a message), saved to local storage *)
(* by the save effect and loaded again by the mount effect                 *)
(* (src/app/chat/page.tsx:100-165). A Date is its time value, the number   *)
(* of milliseconds since the epoch.                                        *)
(***************************************************************************)

\* sessions in the history list, and messages in a session
MaxSessions == 2
MaxStamped == 2

\* the times at which something happens: around the turn of a second, of a
\* minute, of an hour and of a day
Instants == {0, 1, 999, 1000, 59999, 60000, 3600000, 86399999, 86400000}

\* Date.prototype.toJSON: the ISO text, as its fields <<day, hours, minutes,
\* seconds, milliseconds>>
toISOStringSeconds(t) ==
    <<t \div 86400000, (t \div 3600000) % 24, (t \div 60000) % 60, (t \div 1000) % 60, 0>>
toISOString(t) ==
    <<t \div 86400000, (t \div 3600000) % 24, (t \div 60000) % 60, (t \div 1000) % 60,
      t % 1000>>

\* new Date(text)
DateParse(iso) ==
    iso[1] * 86400000 + iso[2] * 3600000 + iso[3] * 60000 + iso[4] * 1000 + iso[5]

\* JSON.stringify(chatHistory) (page.tsx:163): every Date becomes its ISO text
stringifyDates(h) ==
    [text |-> [i \in 1..Len(h) |->
        [id |-> h[i].id,
         createdAt |-> toISOString(h[i].createdAt),
         updatedAt |-> toISOString(h[i].updatedAt),
         messages |-> [k \in 1..Len(h[i].messages) |->
                          [timestamp |-> toISOString(h[i].messages[k].timestamp)]]]]]

\* JSON.parse(savedHistory) and the map that rebuilds the Dates
\* (page.tsx:104-113)
loadHistory(t) ==
    LET parsed == t.text
    IN  [i \in 1..Len(parsed) |->
            [id |-> parsed[i].id,
             createdAt |-> DateParse(parsed[i].createdAt),
             updatedAt |-> DateParse(parsed[i].updatedAt),
             messages |-> [k \in 1..Len(parsed[i].messages) |->
                              [timestamp |-> DateParse(parsed[i].messages[k].timestamp)]]]]

InitReloadVars ==
    /\ PageIs(FirstRender)
    /\ isProcessingRef = FALSE
    /\ storage = <<>>
    /\ initialQuery = ""
    /\ timer = "none"
    /\ nextChatId = 1
    /\ requests = <<>>
    /\ lastAction = NoAction
    /\ clock = 0

\* time passes
Tick ==
    /\ \E t \in Instants : t > clock /\ clock' = t
    /\ UNCHANGED <<chatVars, uploadVars, apiVars, streamVars>>

\* the session id changes at the time clock, with a new message or without
\* one, and updateCurrentChatInHistory (page.tsx:134-157) puts its snapshot
\* into the list; the save effect writes the list
SessionChanges ==
    /\ \E id \in 1..MaxSessions, grows \in BOOLEAN :
         LET at == FindIndex(chatHistory, id)
             before == IF at > 0 THEN chatHistory[at].messages ELSE <<>>
             after == IF grows THEN Append(before, [timestamp |-> clock]) ELSE before
             updatedChat == [id |-> id, createdAt |-> clock, updatedAt |-> clock,
                             messages |-> after]
         IN  /\ Len(after) > 0
             /\ Len(after) <= MaxStamped
             /\ at = 0 => id = Len(chatHistory) + 1
             /\ chatHistory' = IF at > 0
                               THEN [chatHistory EXCEPT ![at] = updatedChat]
                               ELSE <<updatedChat>> \o chatHistory
             /\ storage' = <<stringifyDates(chatHistory')>>
    /\ lastAction' = NoAction
    /\ UNCHANGED <<currentChatId, messages, userQuery, isLoading, topMatch, alternatives,
                   selectedTemplateId, answers, questions, prefilledFields, draft,
                   showSidebar, activeTab>>
    /\ UNCHANGED <<isProcessingRef, initialQuery, timer, nextChatId, requests>>
    /\ UNCHANGED <<clock, uploadVars, apiVars, streamVars>>

\* the page is left and opened again: the mount effect (page.tsx:100-119)
\* loads the list, and the save effect writes it again
Reload ==
    /\ storage # <<>>
    /\ chatHistory' = loadHistory(storage[1])
    /\ storage' = <<stringifyDates(chatHistory')>>
    /\ lastAction' = "reload"
    /\ UNCHANGED <<currentChatId, messages, userQuery, isLoading, topMatch, alternatives,
                   selectedTemplateId, answers, questions, prefilledFields, draft,
                   showSidebar, activeTab>>
    /\ UNCHANGED <<isProcessingRef, initialQuery, timer, nextChatId, requests>>
    /\ UNCHANGED <<clock, uploadVars, apiVars, streamVars>>

InitReload == InitReloadVars /\ UploadIdle /\ ApiIdle /\ StreamIdle

NextReload ==
    \/ Tick
    \/ SessionChanges
    \/ Reload

SpecReload == InitReload /\ [][NextReload]_vars

\* how two Dates compare
Compare(a, b) == IF a < b THEN "before" ELSE IF a = b THEN "same" ELSE "after"

\* the lists h1 and h2 hold the same sessions and messages in the same order,
\* and any two of their Dates compare the same way
SameOrder(h1, h2) ==
    /\ Len(h1) = Len(h2)
    /\ \A i \in 1..Len(h1) :
         /\ h1[i].id = h2[i].id
         /\ Len(h1[i].messages) = Len(h2[i].messages)
         /\ \A k, l \in 1..Len(h1[i].messages) :
              Compare(h1[i].messages[k].timestamp, h1[i].messages[l].timestamp)
                = Compare(h2[i].messages[k].timestamp, h2[i].messages[l].timestamp)
    /\ \A i, j \in 1..Len(h1) :
         /\ Compare(h1[i].createdAt, h1[j].createdAt)
              = Compare(h2[i].createdAt, h2[j].createdAt)
         /\ Compare(h1[i].updatedAt, h1[j].updatedAt)
              = Compare(h2[i].updatedAt, h2[j].updatedAt)

\* C16: the history list loaded on mount holds the sessions and messages of
\* the list that was saved, in the same order, and any two sessions (by
\* createdAt, by updatedAt) and any two messages of a session (by timestamp)
\* compare as they did before the save.
C16_ReloadKeepsOrder ==
    [][ lastAction' = "reload" => SameOrder(chatHistory, chatHistory') ]_vars

\* a list was loaded that holds two sessions changed within the same second
\* and a session with two messages added within the same second
C16_Witness ==
    /\ lastAction = "reload"
    /\ Len(chatHistory) = 2
    /\ chatHistory[1].updatedAt # chatHistory[2].updatedAt
    /\ toISOStringSeconds(chatHistory[1].updatedAt)
         = toISOStringSeconds(chatHistory[2].updatedAt)
    /\ \E i \in 1..2 :
         /\ Len(chatHistory[i].messages) = 2
         /\ chatHistory[i].messages[1].timestamp < chatHistory[i].messages[2].timestamp

(***************************************************************************)
(* SpecMessages: addMessage (src/app/chat/page.tsx:348-379) called in each *)
(* of its three modes on every short transcript                            *)
(***************************************************************************)

\* messages in the transcript, and paragraphs in the content of a message
MaxListed == 2
MaxParagraphs == 2

\* the arguments addMessage may be called with
MessageTypes == {"user", "assistant"}
Contents == {"a", "b"}
Metadatas == {NoMeta, OfferMeta(<<"t1">>)}

CallAddMessage(mode, replaceLast, appendToLast) ==
    /\ \E type \in MessageTypes, content \in Contents, metadata \in Metadatas :
         messages' = addMessage(messages, type, content, metadata, replaceLast, appendToLast)
    /\ Len(messages') <= MaxListed
    /\ \A k \in 1..Len(messages') : Len(messages'[k].content) <= MaxParagraphs
    /\ lastAction' = mode

\* addMessage(type, content, metadata)
addMessagePlain ==
    /\ CallAddMessage("append", FALSE, FALSE)
    /\ UNCHANGED <<chatHistory, currentChatId, userQuery, isLoading, topMatch, alternatives,
                   selectedTemplateId, answers, questions, prefilledFields, draft,
                   showSidebar, activeTab>>
    /\ UNCHANGED <<isProcessingRef, storage, initialQuery, timer, nextChatId, requests>>
    /\ UNCHANGED <<apiVars, streamVars, extraVars>>

\* addMessage(type, content, metadata, true)
addMessageReplaceLast ==
    /\ CallAddMessage("replaceLast", TRUE, FALSE)
    /\ UNCHANGED <<chatHistory, currentChatId, userQuery, isLoading, topMatch, alternatives,
                   selectedTemplateId, answers, questions, prefilledFields, draft,
                   showSidebar, activeTab>>
    /\ UNCHANGED <<isProcessingRef, storage, initialQuery, timer, nextChatId, requests>>
    /\ UNCHANGED <<apiVars, streamVars, extraVars>>

\* addMessage(type, content, metadata, false, true)
addMessageAppendToLast ==
    /\ CallAddMessage("appendToLast", FALSE, TRUE)
    /\ UNCHANGED <<chatHistory, currentChatId, userQuery, isLoading, topMatch, alternatives,
                   selectedTemplateId, answers, questions, prefilledFields, draft,
                   showSidebar, activeTab>>
    /\ UNCHANGED <<isProcessingRef, storage, initialQuery, timer, nextChatId, requests>>
    /\ UNCHANGED <<apiVars, streamVars, extraVars>>

\* setMessages([])  (page.tsx:211)
clearMessages ==
    /\ messages # <<>>
    /\ messages' = <<>>
    /\ lastAction' = NoAction
    /\ UNCHANGED <<chatHistory, currentChatId, userQuery, isLoading, topMatch, alternatives,
                   selectedTemplateId, answers, questions, prefilledFields, draft,
                   showSidebar, activeTab>>
    /\ UNCHANGED <<isProcessingRef, storage, initialQuery, timer, nextChatId, requests>>
    /\ UNCHANGED <<apiVars, streamVars, extraVars>>

InitMessages == ChatIdle /\ ApiIdle /\ StreamIdle /\ ExtraIdle

NextMessages ==
    \/ addMessagePlain
    \/ addMessageReplaceLast
    \/ addMessageAppendToLast
    \/ clearMessages

SpecMessages == InitMessages /\ [][NextMessages]_vars

\* C17: addMessage in append-to-last mode on the empty list gives the list
\* whose only element is the new message.
C17_AppendToLastOnEmptyAppends ==
    [][ (lastAction' = "appendToLast" /\ messages = <<>>) =>
          \E type \in MessageTypes, content \in Contents, metadata \in Metadatas :
            /\ messages' = <<Message(type, content, metadata)>>
            /\ messages' = addMessage(<<>>, type, content, metadata, FALSE, FALSE)
      ]_vars

\* append-to-last was called on the empty list and the list holds one message
\* of one paragraph
C17_Witness ==
    /\ lastAction = "appendToLast"
    /\ Len(messages) = 1
    /\ messages[1].content = <<"a">>
    /\ messages[1].metadata = OfferMeta(<<"t1">>)

\* the fields of a message that append-to-last does not write
Rest(m) == [type |-> m.type, metadata |-> m.metadata]

\* C22: a call of addMessage never shortens the list and leaves every message
\* but the last as it was; plain append changes no message, replace-last
\* changes the last message only, append-to-last only the content of the last.
C22_AddMessageTouchesOnlyLast ==
    [][ lastAction' \in {"append", "replaceLast", "appendToLast"} =>
          /\ Len(messages') >= Len(messages)
          /\ \A k \in 1..(Len(messages) - 1) : messages'[k] = messages[k]
          /\ lastAction' = "append" =>
               /\ Len(messages') = Len(messages) + 1
               /\ \A k \in 1..Len(messages) : messages'[k] = messages[k]
          /\ lastAction' = "replaceLast" => Len(messages') = Len(messages)
          /\ (lastAction' = "appendToLast" /\ messages # <<>>) =>
               /\ Len(messages') = Len(messages)
               /\ Rest(messages'[Len(messages)]) = Rest(messages[Len(messages)])
      ]_vars

\* append-to-last has extended the second of two messages
C22_Witness ==
    /\ lastAction = "appendToLast"
    /\ Len(messages) = 2
    /\ messages[1].type = "user"
    /\ messages[2].type = "assistant"
    /\ Len(messages[2].content) = 2

(***************************************************************************)
(* SpecSelect: the chat page opened with a stored session in which two     *)
(* templates were offered; the user has clicked that session in the        *)
(* history list and picks templates from the offer                         *)
(* (src/app/chat/page.tsx: load effect, switchToChat, handleSelectTemplate,*)
(* handleGetQuestions)                                                     *)
(***************************************************************************)

\* the page after the load effect read the stored session and switchToChat
\* showed it: topMatch and alternatives are those of the first render
OfferedSession ==
    LET s == [FirstRender EXCEPT
                !.currentChatId = 1,
                !.messages = <<Message("assistant", OfferText, OfferMeta(<<"t1", "t2">>))>>]
    IN  [s EXCEPT !.chatHistory = <<Snapshot(s)>>]

InitSelectVars ==
    /\ PageIs(OfferedSession)
    /\ isProcessingRef = FALSE
    /\ storage = <<JSONstringify(chatHistory)>>
    /\ initialQuery = ""
    /\ timer = "none"
    /\ nextChatId = 2
    /\ requests = <<>>
    /\ lastAction = NoAction

InitSelect == InitSelectVars /\ ApiIdle /\ StreamIdle /\ ExtraIdle

NextSelect ==
    \/ handleInputChange
    \/ handleSelectTemplate
    \/ QuestionsResolve
    \/ QuestionsReject
    \/ NoQuestionsDraftResolve
    \/ NoQuestionsDraftReject
    \/ handleAnswerChange

SpecSelect == InitSelect /\ [][NextSelect]_vars

====
